---- MODULE Spec2Model ----
(***************************************************************************)
(* Bookmark-movement core: CreateBookmarkOp (bookmarks_movement/create.rs). *)
(*                                                                         *)
(* Every operation is an asynchronous task.  `run` executes without        *)
(* yielding between its two suspension points (the await on the hook       *)
(* preparation, create.rs:105, and the await on the commit,                *)
(* create.rs:110-111), so the model has one action per such segment.  The  *)
(* calls a run makes are recorded, in order, in `log`.                     *)
(*                                                                         *)
(* The collaborators whose code is outside create.rs (authorization,       *)
(* kind classifier, global-numbering check, hook builder, the bookmark     *)
(* transaction) are modelled from their contracts.                         *)
(***************************************************************************)
EXTENDS Integers, Sequences, FiniteSets, TLC

VARIABLES
    op,           \* op[o]: the CreateBookmarkOp value (the builder's fields)
    ctx,          \* ctx[o]: the principal of the CoreContext given to run
    pc,           \* pc[o]: where operation o is
    supplied,     \* supplied[o]: the mappings given to with_new_changesets, in order
    declared,     \* declared[o]: the kind restrictions declared by builder calls, in order
    replays,      \* replays[o]: the values given to with_bundle_replay_data, in order
    txn,          \* txn[o]: the bookmark transaction of the run
    txn_hook,     \* txn_hook[o]: the prepared hook, if any
    ok,           \* ok[o]: what the commit returned
    result,       \* result[o]: what run returned
    log,          \* log[o]: the calls run made, in order
    bookmarks,    \* the shared bookmark store, one map per namespace
    git_mapping,  \* the auxiliary mapping: changesets that have an entry
    globalrevs,   \* pushrebase_params: global numbering is enabled
    download,     \* the LFS server's download request and its filestore
    health        \* the EdenAPI server's router, exit flag and request

vars == <<op, ctx, pc, supplied, declared, replays, txn, txn_hook, ok, result, log,
          bookmarks, git_mapping, globalrevs, download, health>>

----------------------------------------------------------------------------
(* Bounds *)

NumOps == 2
MaxBuilderCalls == 2

Ops == 1 .. NumOps
\* Changeset ids.  Operation o creates its bookmark at changeset o, so the
\* concurrent operations of the model have pairwise different targets.
ChangesetIds == 1 .. NumOps
\* no bookmark of that name (a changeset id is positive)
NoTarget == 0

Names == {"main", "scratch/x"}
ScratchNames == {"scratch/x"}
Namespaces == {"scratch", "public"}
Users == {"alice", "mallory"}
Reasons == {"Push", "Pushrebase"}
Bonsais == {"bcs_a", "bcs_b"}
BundleReplays == {"none", "replay"}

\* HashMap<ChangesetId, BonsaiChangeset>: a function on a set of changeset ids
Maps == UNION {[d -> Bonsais] : d \in SUBSET ChangesetIds}
EmptyMap == [k \in {} |-> "bcs_a"]

----------------------------------------------------------------------------
(* The builder *)

New(bookmark, target, reason) ==
    [bookmark |-> bookmark, target |-> target, reason |-> reason,
     auth |-> "Context", kind_restrictions |-> "AnyKind",
     new_changesets |-> EmptyMap, bundle_replay |-> "none"]

\* HashMap::extend: every pair of `changesets` is inserted, replacing the
\* value of a key already present
Extend(m, changesets) ==
    [k \in DOMAIN m \cup DOMAIN changesets |->
        IF k \in DOMAIN changesets THEN changesets[k] ELSE m[k]]

ExtendKeepOld(m, changesets) ==
    [k \in DOMAIN m \cup DOMAIN changesets |->
        IF k \in DOMAIN m THEN m[k] ELSE changesets[k]]

MergeKeepOld(new_changesets, changesets) ==
    IF DOMAIN new_changesets = {}
    THEN changesets
    ELSE ExtendKeepOld(new_changesets, changesets)

MergeNewChangesets(new_changesets, changesets) ==
    IF DOMAIN new_changesets = {}
    THEN changesets
    ELSE Extend(new_changesets, changesets)

----------------------------------------------------------------------------
(* Collaborators of run, modelled from their contracts *)

\* Bookmark ACL table: is_allowed(principal, bookmark_name)
IsAllowedUser(user, bookmark) == user = "alice"

\* BookmarkMoveAuthorization::check_authorized
CheckAuthorized(auth, user, bookmark) ==
    IF auth = "Context" /\ ~IsAllowedUser(user, bookmark)
    THEN "PermissionDenied"
    ELSE "Ok"

\* Scratch-eligibility config: a name matching no scratch pattern is public
IsScratchBookmark(bookmark) == bookmark \in ScratchNames

\* BookmarkKindRestrictions::check_kind
CheckKind(kind_restrictions, bookmark) ==
    LET is_scratch == IsScratchBookmark(bookmark)
        mismatch == \/ kind_restrictions = "OnlyScratch" /\ ~is_scratch
                    \/ kind_restrictions = "OnlyPublic" /\ is_scratch
    IN  [err |-> IF mismatch THEN "KindMismatch" ELSE "Ok",
         is_scratch |-> is_scratch]

\* globalrev_mapping::require_globalrevs_disabled
RequireGlobalrevsDisabled(enabled) ==
    IF enabled THEN "ConfigurationConflict" ELSE "Ok"

NoHook == [some |-> FALSE, entries |-> {}]

\* git_mapping::populate_git_mapping_txn_hook: the new changesets that have
\* no entry yet; none when nothing is to be derived; `fault` is a failure of
\* the store the builder queries
PopulateGitMappingTxnHook(target, new_changesets, mapping, fault) ==
    LET derived == {c \in DOMAIN new_changesets : c \notin mapping}
    IN  IF fault THEN [err |-> "StorageError", hook |-> NoHook]
        ELSE IF derived = {} THEN [err |-> "Ok", hook |-> NoHook]
        ELSE [err |-> "Ok", hook |-> [some |-> TRUE, entries |-> derived]]

NoTxn == [begun |-> FALSE, staged |-> <<>>]

\* BlobRepo::update_bookmark_transaction
UpdateBookmarkTransaction == [begun |-> TRUE, staged |-> <<>>]

\* the staging of one create: refused when the name exists in the namespace
StageCreate(t, store, ns, bookmark, target, reason, bundle_replay) ==
    IF store[ns][bookmark] # NoTarget
    THEN [err |-> "StorageError", txn |-> t]
    ELSE [err |-> "Ok",
          txn |-> [t EXCEPT !.staged = Append(@,
                     [ns |-> ns, bookmark |-> bookmark, target |-> target,
                      reason |-> reason, bundle_replay |-> bundle_replay])]]

\* BookmarkTransaction::create_scratch(name, target)
TxnCreateScratch(t, store, bookmark, target) ==
    StageCreate(t, store, "scratch", bookmark, target, "none", "none")

\* BookmarkTransaction::create(name, target, reason, bundle_replay)
TxnCreate(t, store, bookmark, target, reason, bundle_replay) ==
    StageCreate(t, store, "public", bookmark, target, reason, bundle_replay)

\* the optimistic concurrency check of the store: a staged name was created
\* concurrently
Conflict(t, store) ==
    \E i \in 1 .. Len(t.staged) :
        store[t.staged[i].ns][t.staged[i].bookmark] # NoTarget

RECURSIVE ApplyStaged(_, _)
ApplyStaged(staged, store) ==
    IF staged = <<>> THEN store
    ELSE LET s == Head(staged)
         IN  ApplyStaged(Tail(staged),
                         [store EXCEPT ![s.ns][s.bookmark] = s.target])

\* BookmarkTransaction::commit: an error, false (lost race) or true (applied)
TxnCommit(t, store, mapping, fault) ==
    IF fault THEN [ret |-> "error", bookmarks |-> store, git_mapping |-> mapping]
    ELSE IF Conflict(t, store)
    THEN [ret |-> "false", bookmarks |-> store, git_mapping |-> mapping]
    ELSE [ret |-> "true", bookmarks |-> ApplyStaged(t.staged, store),
          git_mapping |-> mapping]

\* BookmarkTransaction::commit_with_hook: the hook's entries are written in
\* the same unit as the staged creates
TxnCommitWithHook(t, hook, store, mapping, fault) ==
    IF fault THEN [ret |-> "error", bookmarks |-> store, git_mapping |-> mapping]
    ELSE IF Conflict(t, store)
    THEN [ret |-> "false", bookmarks |-> store, git_mapping |-> mapping]
    ELSE [ret |-> "true", bookmarks |-> ApplyStaged(t.staged, store),
          git_mapping |-> mapping \cup hook.entries]

----------------------------------------------------------------------------
(* CreateBookmarkOp::run: its calls *)

AuthGateSkipped(o) == "Ok"

\* self.auth.check_authorized(ctx, bookmark_attrs, self.bookmark)?
AuthGate(o) == CheckAuthorized(op[o].auth, ctx[o], op[o].bookmark)

KindGateUnrestricted(o) == CheckKind("AnyKind", op[o].bookmark)

KindGateInverted(o) ==
    [err |-> CheckKind(op[o].kind_restrictions, op[o].bookmark).err,
     is_scratch |-> ~CheckKind(op[o].kind_restrictions, op[o].bookmark).is_scratch]

\* self.kind_restrictions.check_kind(infinitepush_params, self.bookmark)?
KindGate(o) == CheckKind(op[o].kind_restrictions, op[o].bookmark)

GlobalrevsGateSkipped(o) == "Ok"

GlobalrevsGateOnlyWithChangesets(o) ==
    IF DOMAIN op[o].new_changesets = {}
    THEN "Ok"
    ELSE RequireGlobalrevsDisabled(globalrevs)

\* require_globalrevs_disabled(pushrebase_params)?
GlobalrevsGate(o) == RequireGlobalrevsDisabled(globalrevs)

ScratchStageWithSideInputs(o, t) ==
    StageCreate(t, bookmarks, "scratch", op[o].bookmark, op[o].target,
                op[o].reason, op[o].bundle_replay)

ScratchStageAsPublic(o, t) ==
    TxnCreate(t, bookmarks, op[o].bookmark, op[o].target,
              op[o].reason, op[o].bundle_replay)

\* txn.create_scratch(self.bookmark, self.target)?
ScratchStage(o, t) ==
    TxnCreateScratch(t, bookmarks, op[o].bookmark, op[o].target)

PublicStageErrorIgnored(o, t) ==
    [err |-> "Ok",
     txn |-> TxnCreate(t, bookmarks, op[o].bookmark, op[o].target,
                       op[o].reason, op[o].bundle_replay).txn]

PublicStageDropsReplay(o, t) ==
    TxnCreate(t, bookmarks, op[o].bookmark, op[o].target, op[o].reason, "none")

\* txn.create(self.bookmark, self.target, self.reason, self.bundle_replay)?
PublicStage(o, t) ==
    TxnCreate(t, bookmarks, op[o].bookmark, op[o].target,
              op[o].reason, op[o].bundle_replay)

\* populate_git_mapping_txn_hook(ctx, repo, pushrebase_params, self.target,
\*                               &self.new_changesets).await?
HookCall(o, fault) ==
    PopulateGitMappingTxnHook(op[o].target, op[o].new_changesets,
                              git_mapping, fault)

CommitVariantPlain(hook) == "commit"

CommitVariantAlwaysHook(hook) == "commit_with_hook"

\* match txn_hook { Some(h) => txn.commit_with_hook(h), None => txn.commit() }
CommitVariant(hook) ==
    IF hook.some THEN "commit_with_hook" ELSE "commit"

RunResultIgnoresOk(ret) ==
    IF ret = "error" THEN "StorageError" ELSE "Ok"

RunResultLostRaceAsError(ret) ==
    IF ret = "true" THEN "Ok" ELSE "StorageError"

RunResultInverted(ret) ==
    IF ret = "error" THEN "StorageError"
    ELSE IF ret = "true" THEN "TransactionFailed"
    ELSE "Ok"

\* `.await?` on the commit, then `if !ok { return Err(TransactionFailed) }`
RunResult(ret) ==
    IF ret = "error" THEN "StorageError"
    ELSE IF ret = "false" THEN "TransactionFailed"
    ELSE "Ok"

RunUntilAwaitStagesEarly(o) ==
    LET auth == AuthGate(o)
        kind == KindGate(o)
        t0 == UpdateBookmarkTransaction
        st == ScratchStage(o, t0)
        pst == PublicStage(o, t0)
        gr == GlobalrevsGate(o)
        c1 == <<"check_authorized">>
        c2 == Append(c1, "check_kind")
        c3 == Append(c2, "update_bookmark_transaction")
        Stop(calls, err, t) ==
            [pc |-> "Done", log |-> calls, result |-> err, txn |-> t]
    IN  IF auth # "Ok" THEN Stop(c1, auth, NoTxn)
        ELSE IF kind.err # "Ok" THEN Stop(c2, kind.err, NoTxn)
        ELSE IF kind.is_scratch
        THEN IF st.err # "Ok"
             THEN Stop(Append(c3, "create_scratch"), st.err, st.txn)
             ELSE [pc |-> "AwaitCommit",
                   log |-> c3 \o <<"create_scratch", CommitVariant(NoHook)>>,
                   result |-> "none", txn |-> st.txn]
        ELSE IF pst.err # "Ok"
        THEN Stop(Append(c3, "create"), pst.err, pst.txn)
        ELSE IF gr # "Ok"
        THEN Stop(c3 \o <<"create", "require_globalrevs_disabled">>, gr,
                  pst.txn)
        ELSE [pc |-> "AwaitHook",
              log |-> c3 \o <<"create", "require_globalrevs_disabled",
                              "populate_git_mapping_txn_hook">>,
              result |-> "none", txn |-> pst.txn]

RunUntilAwaitKindFirst(o) ==
    LET auth == AuthGate(o)
        kind == KindGate(o)
        t0 == UpdateBookmarkTransaction
        st == ScratchStage(o, t0)
        gr == GlobalrevsGate(o)
        c1 == <<"check_kind">>
        c2 == Append(c1, "check_authorized")
        c3 == Append(c2, "update_bookmark_transaction")
        Stop(calls, err, t) ==
            [pc |-> "Done", log |-> calls, result |-> err, txn |-> t]
    IN  IF kind.err # "Ok" THEN Stop(c1, kind.err, NoTxn)
        ELSE IF auth # "Ok" THEN Stop(c2, auth, NoTxn)
        ELSE IF kind.is_scratch
        THEN IF st.err # "Ok"
             THEN Stop(Append(c3, "create_scratch"), st.err, st.txn)
             ELSE [pc |-> "AwaitCommit",
                   log |-> c3 \o <<"create_scratch", CommitVariant(NoHook)>>,
                   result |-> "none", txn |-> st.txn]
        ELSE IF gr # "Ok"
        THEN Stop(Append(c3, "require_globalrevs_disabled"), gr, t0)
        ELSE [pc |-> "AwaitHook",
              log |-> c3 \o <<"require_globalrevs_disabled",
                              "populate_git_mapping_txn_hook">>,
              result |-> "none", txn |-> t0]

\* run up to its first suspension point: what it called, and where it is then
RunUntilAwait(o) ==
    LET auth == AuthGate(o)
        kind == KindGate(o)
        t0 == UpdateBookmarkTransaction
        st == ScratchStage(o, t0)
        gr == GlobalrevsGate(o)
        c1 == <<"check_authorized">>
        c2 == Append(c1, "check_kind")
        c3 == Append(c2, "update_bookmark_transaction")
        Stop(calls, err, t) ==
            [pc |-> "Done", log |-> calls, result |-> err, txn |-> t]
    IN  IF auth # "Ok" THEN Stop(c1, auth, NoTxn)
        ELSE IF kind.err # "Ok" THEN Stop(c2, kind.err, NoTxn)
        ELSE IF kind.is_scratch
        THEN IF st.err # "Ok"
             THEN Stop(Append(c3, "create_scratch"), st.err, st.txn)
             ELSE [pc |-> "AwaitCommit",
                   log |-> c3 \o <<"create_scratch", CommitVariant(NoHook)>>,
                   result |-> "none", txn |-> st.txn]
        ELSE IF gr # "Ok"
        THEN Stop(Append(c3, "require_globalrevs_disabled"), gr, t0)
        ELSE [pc |-> "AwaitHook",
              log |-> c3 \o <<"require_globalrevs_disabled",
                              "populate_git_mapping_txn_hook">>,
              result |-> "none", txn |-> t0]

\* run from the hook builder's answer to the commit call
RunAfterHook(o, fault) ==
    LET h == HookCall(o, fault)
        st == PublicStage(o, txn[o])
        c == Append(log[o], "create")
    IN  IF h.err # "Ok"
        THEN [pc |-> "Done", log |-> log[o], result |-> h.err,
              txn |-> txn[o], txn_hook |-> NoHook]
        ELSE IF st.err # "Ok"
        THEN [pc |-> "Done", log |-> c, result |-> st.err,
              txn |-> st.txn, txn_hook |-> h.hook]
        ELSE [pc |-> "AwaitCommit", log |-> Append(c, CommitVariant(h.hook)),
              result |-> "none", txn |-> st.txn, txn_hook |-> h.hook]

Last(seq) == seq[Len(seq)]

\* the commit the run called, as the store executes it
CommitCall(o, fault) ==
    IF Last(log[o]) = "commit_with_hook"
    THEN TxnCommitWithHook(txn[o], txn_hook[o], bookmarks, git_mapping, fault)
    ELSE TxnCommit(txn[o], bookmarks, git_mapping, fault)

----------------------------------------------------------------------------
(* Actions *)

Run(o) ==
    /\ pc[o] = "Configured"
    /\ LET r == RunUntilAwait(o)
       IN  /\ pc' = [pc EXCEPT ![o] = r.pc]
           /\ log' = [log EXCEPT ![o] = r.log]
           /\ result' = [result EXCEPT ![o] = r.result]
           /\ txn' = [txn EXCEPT ![o] = r.txn]
    /\ UNCHANGED <<op, ctx, supplied, declared, replays, txn_hook, ok, bookmarks,
                   git_mapping, globalrevs, download, health>>

HookReturns(o) ==
    /\ pc[o] = "AwaitHook"
    /\ \E fault \in BOOLEAN :
         LET r == RunAfterHook(o, fault)
         IN  /\ pc' = [pc EXCEPT ![o] = r.pc]
             /\ log' = [log EXCEPT ![o] = r.log]
             /\ result' = [result EXCEPT ![o] = r.result]
             /\ txn' = [txn EXCEPT ![o] = r.txn]
             /\ txn_hook' = [txn_hook EXCEPT ![o] = r.txn_hook]
    /\ UNCHANGED <<op, ctx, supplied, declared, replays, ok, bookmarks, git_mapping,
                   globalrevs, download, health>>

\* a lost race makes the run start over
CommitReturnsRetry(o) ==
    /\ pc[o] = "AwaitCommit"
    /\ \E fault \in BOOLEAN :
         LET c == CommitCall(o, fault)
         IN  /\ ok' = [ok EXCEPT ![o] = c.ret]
             /\ bookmarks' = c.bookmarks
             /\ git_mapping' = c.git_mapping
             /\ result' = [result EXCEPT ![o] =
                              IF c.ret = "false" THEN "none" ELSE RunResult(c.ret)]
             /\ pc' = [pc EXCEPT ![o] =
                          IF c.ret = "false" THEN "Configured" ELSE "Done"]
    /\ UNCHANGED <<op, ctx, supplied, declared, replays, txn, txn_hook, log,
                   globalrevs, download, health>>

CommitReturns(o) ==
    /\ pc[o] = "AwaitCommit"
    /\ \E fault \in BOOLEAN :
         LET c == CommitCall(o, fault)
         IN  /\ ok' = [ok EXCEPT ![o] = c.ret]
             /\ bookmarks' = c.bookmarks
             /\ git_mapping' = c.git_mapping
             /\ result' = [result EXCEPT ![o] = RunResult(c.ret)]
             /\ pc' = [pc EXCEPT ![o] = "Done"]
    /\ UNCHANGED <<op, ctx, supplied, declared, replays, txn, txn_hook, log,
                   globalrevs, download, health>>

----------------------------------------------------------------------------
(* Concurrent operations, each built before the model starts *)

KindRestrictions == {"AnyKind", "OnlyScratch", "OnlyPublic"}

\* the operations operation o can be: its target is changeset o, and the
\* new changesets it carries, if any, are its target's
OpsOf(o) ==
    {[New(b, o, "Push") EXCEPT !.kind_restrictions = kr,
                               !.new_changesets = ncs] :
        b \in Names, kr \in KindRestrictions,
        ncs \in {EmptyMap, [k \in {o} |-> "bcs_a"]}}

EmptyStore == [ns \in Namespaces |-> [n \in Names |-> NoTarget]]

\* the LFS server and the EdenAPI server are other processes: no request
NoDownload == [pc |-> "Off"]

NoHealth == [pc |-> "Off"]

InitRun ==
    /\ txn = [o \in Ops |-> NoTxn]
    /\ txn_hook = [o \in Ops |-> NoHook]
    /\ ok = [o \in Ops |-> "none"]
    /\ result = [o \in Ops |-> "none"]
    /\ log = [o \in Ops |-> <<>>]
    /\ bookmarks = EmptyStore
    /\ git_mapping = {}
    /\ globalrevs \in BOOLEAN
    /\ download = NoDownload
    /\ health = NoHealth

Init ==
    /\ op \in {f \in [Ops -> UNION {OpsOf(o) : o \in Ops}] :
                 \A o \in Ops : f[o] \in OpsOf(o)}
    /\ ctx \in [Ops -> Users]
    /\ pc = [o \in Ops |-> "Configured"]
    /\ supplied = [o \in Ops |->
                     IF DOMAIN op[o].new_changesets = {} THEN <<>>
                     ELSE <<op[o].new_changesets>>]
    /\ declared = [o \in Ops |->
                     IF op[o].kind_restrictions = "AnyKind" THEN <<>>
                     ELSE <<op[o].kind_restrictions>>]
    /\ replays = [o \in Ops |-> <<>>]
    /\ InitRun

Next ==
    \E o \in Ops : Run(o) \/ HookReturns(o) \/ CommitReturns(o)

Spec == Init /\ [][Next]_vars

----------------------------------------------------------------------------
(* One operation from new through its builder calls to the end of run *)

\* the operation that is built: the first one
BuiltOp == CHOOSE o \in Ops : \A q \in Ops : o <= q

BuilderCalls(o) == Len(supplied[o]) + Len(declared[o]) + Len(replays[o])

CanBuild(o) ==
    /\ o = BuiltOp
    /\ pc[o] = "Configured"
    /\ BuilderCalls(o) < MaxBuilderCalls

RunFrame == <<ctx, pc, txn, txn_hook, ok, result, log, bookmarks,
              git_mapping, globalrevs, download, health>>

OnlyIfScratch(o) ==
    /\ CanBuild(o)
    /\ op' = [op EXCEPT ![o].kind_restrictions = "OnlyScratch"]
    /\ declared' = [declared EXCEPT ![o] = Append(@, "OnlyScratch")]
    /\ UNCHANGED <<supplied, replays, RunFrame>>

OnlyIfPublicSetsScratch(o) ==
    /\ CanBuild(o)
    /\ op' = [op EXCEPT ![o].kind_restrictions = "OnlyScratch"]
    /\ declared' = [declared EXCEPT ![o] = Append(@, "OnlyPublic")]
    /\ UNCHANGED <<supplied, replays, RunFrame>>

OnlyIfPublic(o) ==
    /\ CanBuild(o)
    /\ op' = [op EXCEPT ![o].kind_restrictions = "OnlyPublic"]
    /\ declared' = [declared EXCEPT ![o] = Append(@, "OnlyPublic")]
    /\ UNCHANGED <<supplied, replays, RunFrame>>

WithBundleReplayData(o, bundle_replay) ==
    /\ CanBuild(o)
    /\ op' = [op EXCEPT ![o].bundle_replay = bundle_replay]
    /\ replays' = [replays EXCEPT ![o] = Append(@, bundle_replay)]
    /\ UNCHANGED <<supplied, declared, RunFrame>>

WithNewChangesets(o, changesets) ==
    /\ CanBuild(o)
    /\ op' = [op EXCEPT ![o].new_changesets =
                 MergeNewChangesets(@, changesets)]
    /\ supplied' = [supplied EXCEPT ![o] = Append(@, changesets)]
    /\ UNCHANGED <<declared, replays, RunFrame>>

InitBuilder ==
    /\ \E b \in Names, r \in Reasons :
         op = [o \in Ops |-> New(b, o, r)]
    /\ \E u \in Users : ctx = [o \in Ops |-> u]
    /\ pc = [o \in Ops |-> IF o = BuiltOp THEN "Configured" ELSE "Unused"]
    /\ supplied = [o \in Ops |-> <<>>]
    /\ declared = [o \in Ops |-> <<>>]
    /\ replays = [o \in Ops |-> <<>>]
    /\ InitRun

NextBuilder ==
    \E o \in Ops :
        \/ OnlyIfScratch(o)
        \/ OnlyIfPublic(o)
        \/ \E br \in BundleReplays : WithBundleReplayData(o, br)
        \/ \E m \in Maps : WithNewChangesets(o, m)
        \/ Run(o)
        \/ HookReturns(o)
        \/ CommitReturns(o)

SpecBuilder == InitBuilder /\ [][NextBuilder]_vars

----------------------------------------------------------------------------
(* Vocabulary of the properties *)

Called(o, c) == \E i \in 1 .. Len(log[o]) : log[o][i] = c

CommitAttempted(o) == Called(o, "commit") \/ Called(o, "commit_with_hook")

StageAttempted(o) == Called(o, "create") \/ Called(o, "create_scratch")

Denied(o) ==
    CheckAuthorized(op[o].auth, ctx[o], op[o].bookmark) = "PermissionDenied"

NamespaceOf(bookmark) ==
    IF IsScratchBookmark(bookmark) THEN "scratch" ELSE "public"

KindMismatched(o) ==
    \/ op[o].kind_restrictions = "OnlyScratch" /\ ~IsScratchBookmark(op[o].bookmark)
    \/ op[o].kind_restrictions = "OnlyPublic" /\ IsScratchBookmark(op[o].bookmark)

\* nothing in the store or in the auxiliary mapping comes from operation o
Untouched(o) ==
    /\ \A ns \in Namespaces, n \in Names : bookmarks[ns][n] # op[o].target
    /\ DOMAIN op[o].new_changesets \cap git_mapping = {}

Failed(o) == result[o] \notin {"none", "Ok"}

----------------------------------------------------------------------------
\* C1: a run whose principal the authorization check refuses ends with
\* PermissionDenied, having called nothing but the authorization check: no
\* kind check, no hook builder, no transaction begun or staged, no commit,
\* and nothing of it in the bookmark store or the auxiliary mapping.
C1_AuthorizationPrecedence ==
    \A o \in Ops :
        Denied(o) =>
            /\ pc[o] = "Done" => result[o] = "PermissionDenied"
            /\ log[o] \in {<<>>, <<"check_authorized">>}
            /\ txn[o] = NoTxn
            /\ txn_hook[o] = NoHook
            /\ ok[o] = "none"
            /\ Untouched(o)

\* a refused run has ended while another operation created the same name
C1_Witness ==
    \E o, w \in Ops :
        /\ Denied(o) /\ pc[o] = "Done" /\ result[o] = "PermissionDenied"
        /\ op[w].bookmark = op[o].bookmark /\ result[w] = "Ok"

\* C2: an authorized run whose declared restriction disagrees with the
\* classified kind ends with KindMismatch; it stages nothing, attempts no
\* commit and leaves nothing in the store.
C2_KindRestrictionEnforced ==
    \A o \in Ops :
        (~Denied(o) /\ KindMismatched(o)) =>
            /\ pc[o] = "Done" => result[o] = "KindMismatch"
            /\ ~StageAttempted(o)
            /\ ~CommitAttempted(o)
            /\ txn[o].staged = <<>>
            /\ ok[o] = "none"
            /\ Untouched(o)

\* both mismatches have happened: only-scratch on a public name and
\* only-public on a scratch name
C2_Witness ==
    \E o, q \in Ops :
        /\ result[o] = "KindMismatch" /\ result[q] = "KindMismatch"
        /\ op[o].kind_restrictions = "OnlyScratch"
        /\ op[q].kind_restrictions = "OnlyPublic"

\* C3: for every public create that prepared a hook, the hook's entries are
\* all in the auxiliary mapping when the operation's bookmark write is in
\* the store and none of them is when it is not; after a commit that
\* returned an error or false none exists, after one that returned true all
\* exist.
C3_HookAtomicWithPointer ==
    \A o \in Ops :
        txn_hook[o].some =>
            LET applied == bookmarks["public"][op[o].bookmark] = op[o].target
                entries == txn_hook[o].entries
            IN  /\ applied => entries \subseteq git_mapping
                /\ ~applied => entries \cap git_mapping = {}
                /\ ok[o] \in {"false", "error"} => ~applied
                /\ ok[o] = "true" => applied

\* one hooked create applied and another hooked create lost the race
C3_Witness ==
    \E o, q \in Ops :
        /\ txn_hook[o].some /\ ok[o] = "true"
        /\ txn_hook[o].entries # {} /\ txn_hook[o].entries \subseteq git_mapping
        /\ txn_hook[q].some /\ ok[q] = "false"

\* the runs on name n that passed authorization, classification, (on the
\* public path) the hook preparation and the staging, i.e. that went on to
\* commit
Contenders(n) == {o \in Ops : op[o].bookmark = n /\ CommitAttempted(o)}

Winners(n) == {o \in Contenders(n) : result[o] = "Ok"}

\* C4: the claim as made: of two or more finished runs on one name that all
\* passed authorization, classification and hook preparation and committed,
\* exactly one succeeded, every other ended with TransactionFailed, and the
\* store maps the name to the winner's target.
C4_ExactlyOneApplied ==
    \A n \in Names :
        (/\ Cardinality(Contenders(n)) >= 2
         /\ \A o \in Contenders(n) : pc[o] = "Done") =>
            /\ Cardinality(Winners(n)) = 1
            /\ \A o \in Contenders(n) \ Winners(n) :
                   result[o] = "TransactionFailed"
            /\ \A w \in Winners(n) :
                   bookmarks[NamespaceOf(n)][n] = op[w].target

\* C4 as amended: at most one of the runs on one name succeeds; the store
\* maps the name to the winner's target, and to nothing while there is no
\* winner; every finished run that committed and did not win ended with
\* TransactionFailed or, its commit having returned an error, with the
\* storage error; and when all finished and no commit returned an error,
\* exactly one won and the others ended with TransactionFailed.
C4_AtMostOneApplied ==
    \A n \in Names :
        /\ Cardinality(Winners(n)) <= 1
        /\ \A w \in Winners(n) : bookmarks[NamespaceOf(n)][n] = op[w].target
        /\ Winners(n) = {} => bookmarks[NamespaceOf(n)][n] = NoTarget
        /\ \A o \in Contenders(n) \ Winners(n) :
               pc[o] = "Done" =>
                   \/ result[o] = "TransactionFailed" /\ ok[o] = "false"
                   \/ result[o] = "StorageError" /\ ok[o] = "error"
        /\ (/\ Contenders(n) # {}
            /\ \A o \in Contenders(n) :
                   pc[o] = "Done" /\ ok[o] # "error") =>
               /\ Cardinality(Winners(n)) = 1
               /\ \A o \in Contenders(n) \ Winners(n) :
                      result[o] = "TransactionFailed"

\* two runs on one name both reached the commit; one won, one lost the race
C4_Witness ==
    \E o, q \in Ops :
        /\ o # q /\ op[o].bookmark = op[q].bookmark
        /\ result[o] = "Ok" /\ ok[q] = "false"
        /\ result[q] = "TransactionFailed"
        /\ bookmarks[NamespaceOf(op[o].bookmark)][op[o].bookmark] = op[o].target

\* C5: run fails with TransactionFailed when the commit returned false, with
\* the storage error when it returned an error, and succeeds when it
\* returned true; it succeeds only if the commit returned true.
C5_LostRaceIsNotStorageError ==
    \A o \in Ops :
        /\ ok[o] = "false" => result[o] = "TransactionFailed"
        /\ ok[o] = "error" => result[o] = "StorageError"
        /\ ok[o] = "true" => result[o] = "Ok"
        /\ result[o] = "Ok" => ok[o] = "true"
        /\ result[o] = "TransactionFailed" => ok[o] = "false"

\* a hooked commit returned false (the run failed with TransactionFailed)
\* against a plain commit that returned true (the run succeeded)
C5_Witness ==
    \E o, q \in Ops :
        /\ ok[o] = "false" /\ Called(o, "commit_with_hook")
        /\ result[o] = "TransactionFailed"
        /\ ok[q] = "true" /\ Called(q, "commit") /\ result[q] = "Ok"

\* C6: a run that stages its create while the name exists in the namespace
\* of its kind ends there with the staging error; a run that ends while its
\* name exists does not succeed; and no step changes the target of a
\* bookmark that exists.
C6_CreateIsNotUpsert ==
    [][/\ \A o \in Ops :
            LET b == op[o].bookmark
                existed == bookmarks[NamespaceOf(b)][b] # NoTarget
            IN  /\ (existed /\ ~StageAttempted(o) /\ StageAttempted(o)') =>
                       /\ pc'[o] = "Done"
                       /\ result'[o] = "StorageError"
                       /\ ~CommitAttempted(o)'
                       /\ bookmarks' = bookmarks
                /\ (existed /\ pc[o] # "Done" /\ pc'[o] = "Done") =>
                       Failed(o)'
       /\ \A ns \in Namespaces, n \in Names :
            bookmarks[ns][n] # NoTarget => bookmarks'[ns][n] = bookmarks[ns][n]
      ]_vars

\* a public create was refused at staging: the name is another run's
C6_Witness ==
    \E o \in Ops :
        /\ result[o] = "StorageError" /\ Last(log[o]) = "create"
        /\ bookmarks["public"][op[o].bookmark] \notin {NoTarget, op[o].target}

\* the union of the mappings of a sequence, the last one that has a key
\* giving the key's value
UnionLastWins(seq) ==
    [k \in UNION {DOMAIN seq[i] : i \in 1 .. Len(seq)} |->
        LET last == CHOOSE i \in 1 .. Len(seq) :
                        /\ k \in DOMAIN seq[i]
                        /\ \A j \in (i + 1) .. Len(seq) : k \notin DOMAIN seq[j]
        IN  seq[last][k]]

\* C7: after any sequence of with_new_changesets calls new_changesets is
\* the union of the mappings supplied, a key taking the value of the last
\* mapping that has it, whether the builder's mapping was empty before a
\* call or not; and a mapping supplied twice in a row leaves what supplying
\* it once left.
C7_IdempotentMerge ==
    \A o \in Ops :
        /\ op[o].new_changesets \in Maps
        /\ op[o].new_changesets = UnionLastWins(supplied[o])
        /\ (/\ Len(supplied[o]) >= 2
            /\ supplied[o][Len(supplied[o])] = supplied[o][Len(supplied[o]) - 1]) =>
               op[o].new_changesets =
                   UnionLastWins(SubSeq(supplied[o], 1, Len(supplied[o]) - 1))

\* two mappings that give one key different values were supplied
C7_Witness ==
    \E o \in Ops : \E k \in ChangesetIds :
        /\ Len(supplied[o]) = 2
        /\ k \in DOMAIN supplied[o][1] /\ k \in DOMAIN supplied[o][2]
        /\ supplied[o][1][k] # supplied[o][2][k]
        /\ DOMAIN supplied[o][1] # DOMAIN supplied[o][2]
        /\ op[o].new_changesets[k] = supplied[o][2][k]

\* C8: an authorized create resolved as public with new changesets, while
\* global numbering is enabled, ends with the configuration conflict; the
\* hook builder is not called, nothing is staged, no commit is attempted
\* and nothing of it is in the store.
C8_ConfigurationConflictFailsFast ==
    \A o \in Ops :
        (/\ ~Denied(o) /\ ~KindMismatched(o)
         /\ ~IsScratchBookmark(op[o].bookmark)
         /\ DOMAIN op[o].new_changesets # {}
         /\ globalrevs) =>
            /\ pc[o] = "Done" => result[o] = "ConfigurationConflict"
            /\ ~Called(o, "populate_git_mapping_txn_hook")
            /\ ~StageAttempted(o)
            /\ ~CommitAttempted(o)
            /\ txn[o].staged = <<>>
            /\ txn_hook[o] = NoHook
            /\ ok[o] = "none"
            /\ Untouched(o)

C8_Witness ==
    \E o \in Ops :
        /\ result[o] = "ConfigurationConflict"
        /\ DOMAIN op[o].new_changesets # {}
        /\ Last(log[o]) = "require_globalrevs_disabled"

\* the operation whose target is t
OpOfTarget(t) == CHOOSE o \in Ops : op[o].target = t

\* C9: a run that ended in a failure has nothing of its own in the bookmark
\* store or the auxiliary mapping; every bookmark and every mapping entry
\* was written by a run whose commit returned true.
C9_NoPartialEffectOnFailure ==
    /\ \A o \in Ops : Failed(o) => Untouched(o)
    /\ \A ns \in Namespaces, n \in Names :
           bookmarks[ns][n] # NoTarget =>
               /\ ok[OpOfTarget(bookmarks[ns][n])] = "true"
               /\ op[OpOfTarget(bookmarks[ns][n])].bookmark = n
    /\ \A c \in git_mapping :
           \E o \in Ops : c \in txn_hook[o].entries /\ ok[o] = "true"

\* a hooked commit returned an error while another run's create is stored
C9_Witness ==
    \E o, w \in Ops :
        /\ result[o] = "StorageError" /\ ok[o] = "error" /\ txn_hook[o].some
        /\ op[o].bookmark = op[w].bookmark
        /\ result[w] = "Ok" /\ txn_hook[w].some

\* C10: the step in which run returns success for name N and target T
\* writes T at N in the namespace of the resolved kind, N being absent from
\* it before, and changes no other name and nothing of the other namespace.
C10_SuccessPostcondition ==
    [][\A o \in Ops :
          (result[o] # "Ok" /\ result'[o] = "Ok") =>
              LET b == op[o].bookmark
                  ns == NamespaceOf(b)
              IN  /\ bookmarks[ns][b] = NoTarget
                  /\ bookmarks' = [bookmarks EXCEPT ![ns][b] = op[o].target]
      ]_vars

\* a scratch create and a public create have both succeeded
C10_Witness ==
    \E o, q \in Ops :
        /\ result[o] = "Ok" /\ result[q] = "Ok"
        /\ bookmarks["scratch"][op[o].bookmark] = op[o].target
        /\ bookmarks["public"][op[q].bookmark] = op[q].target

\* the run passed authorization and the kind check, and its kind is scratch
ResolvedScratch(o) ==
    ~Denied(o) /\ ~KindMismatched(o) /\ IsScratchBookmark(op[o].bookmark)

\* the run passed authorization and the kind check, and its kind is public
ResolvedPublic(o) ==
    ~Denied(o) /\ ~KindMismatched(o) /\ ~IsScratchBookmark(op[o].bookmark)

\* C11: a run whose resolved kind is scratch never calls the hook builder,
\* holds no hook, commits with the plain commit only, writes no entry of
\* the auxiliary mapping, ends in nothing but success, a lost race or a
\* storage error, and succeeds when its commit applied.
C11_ScratchTakesNoHook ==
    \A o \in Ops :
        ResolvedScratch(o) =>
            /\ ~Called(o, "populate_git_mapping_txn_hook")
            /\ ~Called(o, "commit_with_hook")
            /\ ~Called(o, "create")
            /\ txn_hook[o] = NoHook
            /\ DOMAIN op[o].new_changesets \cap git_mapping = {}
            /\ pc[o] = "Done" =>
                   result[o] \in {"Ok", "TransactionFailed", "StorageError"}
            /\ ok[o] = "true" =>
                   /\ result[o] = "Ok"
                   /\ bookmarks["scratch"][op[o].bookmark] = op[o].target

\* a scratch create that carried new changesets succeeded under only-scratch
C11_Witness ==
    \E o \in Ops :
        /\ ResolvedScratch(o) /\ op[o].kind_restrictions = "OnlyScratch"
        /\ DOMAIN op[o].new_changesets # {}
        /\ result[o] = "Ok" /\ Last(log[o]) = "commit"

IsPrefix(s, t) == Len(s) <= Len(t) /\ SubSeq(t, 1, Len(s)) = s

ScratchOrder ==
    <<"check_authorized", "check_kind", "update_bookmark_transaction",
      "create_scratch", "commit">>

PublicOrder(commit) ==
    <<"check_authorized", "check_kind", "update_bookmark_transaction",
      "require_globalrevs_disabled", "populate_git_mapping_txn_hook",
      "create", commit>>

\* how far a run is
Rank(p) ==
    CASE p = "Configured" -> 0
      [] p = "AwaitHook" -> 1
      [] p = "AwaitCommit" -> 2
      [] OTHER -> 3

\* C12: the calls of a run are an initial part of the one order
\* authorization, kind check, (public: global-numbering check, hook
\* preparation), staging, commit, so none is made twice; a run that started
\* made the authorization check; a run that has its result makes no further
\* call; and no step takes a run back: its calls are only added to and its
\* position only advances.
C12_StrictLinearOrder ==
    /\ [](\A o \in Ops :
            /\ \/ IsPrefix(log[o], ScratchOrder)
               \/ IsPrefix(log[o], PublicOrder("commit"))
               \/ IsPrefix(log[o], PublicOrder("commit_with_hook"))
            /\ pc[o] \notin {"Configured", "Unused"} =>
                   Len(log[o]) >= 1 /\ log[o][1] = "check_authorized"
            /\ result[o] # "none" => pc[o] = "Done")
    /\ [][\A o \in Ops :
            /\ IsPrefix(log[o], log'[o])
            /\ Rank(pc'[o]) >= Rank(pc[o])
            /\ pc[o] = "Done" =>
                   /\ pc'[o] = "Done"
                   /\ log'[o] = log[o]
                   /\ result'[o] = result[o]
         ]_vars

\* a public run went through all seven calls and a scratch run through five
C12_Witness ==
    \E o, q \in Ops :
        /\ log[o] = PublicOrder("commit_with_hook") /\ pc[o] = "Done"
        /\ log[q] = ScratchOrder /\ pc[q] = "Done"

\* C13: the kind check is called only after the authorization check and
\* before any staging; a run that is both unauthorized and kind-mismatched
\* ends with PermissionDenied without the kind check being called; and an
\* authorized kind-mismatched run ends with KindMismatch, also while global
\* numbering is enabled, without the global-numbering check being called.
C13_KindCheckPlacement ==
    \A o \in Ops :
        /\ \A i \in 1 .. Len(log[o]) :
               log[o][i] = "check_kind" =>
                   /\ \E j \in 1 .. (i - 1) : log[o][j] = "check_authorized"
                   /\ \A j \in 1 .. (i - 1) :
                          log[o][j] \notin {"create", "create_scratch",
                                            "update_bookmark_transaction"}
        /\ StageAttempted(o) => Called(o, "check_kind")
        /\ (Denied(o) /\ KindMismatched(o)) =>
               /\ ~Called(o, "check_kind")
               /\ pc[o] = "Done" => result[o] = "PermissionDenied"
        /\ (~Denied(o) /\ KindMismatched(o)) =>
               /\ ~Called(o, "require_globalrevs_disabled")
               /\ pc[o] = "Done" => result[o] = "KindMismatch"

\* with global numbering enabled: an unauthorized mismatched run was denied
\* and an authorized mismatched run on a public name got the kind mismatch
C13_Witness ==
    \E o, q \in Ops :
        /\ globalrevs
        /\ Denied(o) /\ KindMismatched(o) /\ result[o] = "PermissionDenied"
        /\ ~Denied(q) /\ KindMismatched(q) /\ result[q] = "KindMismatch"
        /\ ~IsScratchBookmark(op[q].bookmark)

\* The executor polls a task that can make progress, and the hook builder
\* and the store answer the calls made: while some run can take a step, a
\* step is taken.
FairSpec == Spec /\ WF_vars(Next)

Committed(o) == result[o] = "Ok" /\ ok[o] = "true"

LostRace(o) == result[o] = "TransactionFailed" /\ ok[o] = "false"

Errored(o) ==
    result[o] \in {"PermissionDenied", "KindMismatch",
                   "ConfigurationConflict", "StorageError"}

\* C14: eventually every run has ended; a run that ended is in exactly one of
\* committed, lost race and error; and a run that ended stays ended with
\* the outcome it has (it does not run again).
C14_TerminatesWithOneOutcome ==
    /\ <>(\A o \in Ops : pc[o] = "Done")
    /\ [](\A o \in Ops :
            pc[o] = "Done" =>
                /\ Committed(o) \/ LostRace(o) \/ Errored(o)
                /\ ~(Committed(o) /\ LostRace(o))
                /\ ~(Committed(o) /\ Errored(o))
                /\ ~(LostRace(o) /\ Errored(o)))
    /\ [][\A o \in Ops :
            pc[o] = "Done" =>
                pc'[o] = "Done" /\ result'[o] = result[o] /\ ok'[o] = ok[o]
         ]_vars

\* all runs have ended, one committed, one lost the race
C14_Witness ==
    \E o, q \in Ops :
        /\ \A r \in Ops : pc[r] = "Done"
        /\ Committed(o) /\ LostRace(q)

\* the restriction first declared by a builder call, AnyKind when none was
FirstDeclared(o) ==
    IF declared[o] = <<>> THEN "AnyKind" ELSE declared[o][1]

\* C15: the claim as made: the restriction the operation holds, which is
\* the one the kind check consults, is the one first declared (AnyKind
\* when none was declared); no later builder call replaces it.
C15_RestrictionSetOnce ==
    \A o \in Ops : op[o].kind_restrictions = FirstDeclared(o)

\* the restriction last declared by a builder call, AnyKind when none was
LastDeclared(o) ==
    IF declared[o] = <<>> THEN "AnyKind" ELSE declared[o][Len(declared[o])]

\* C15 as amended: the restriction the operation holds is the one last
\* declared (AnyKind when none was declared); the kind check of run consults
\* that one; and no step other than only_if_scratch and only_if_public, no
\* step of run among them, changes it.
C15_LastDeclaredWins ==
    /\ [](\A o \in Ops :
            /\ op[o].kind_restrictions = LastDeclared(o)
            /\ (pc[o] = "Done" /\ ~Denied(o)) =>
                   (result[o] = "KindMismatch" <=>
                        CheckKind(LastDeclared(o), op[o].bookmark).err
                            = "KindMismatch"))
    /\ [][\A o \in Ops :
            declared'[o] = declared[o] =>
                op'[o].kind_restrictions = op[o].kind_restrictions
         ]_vars

\* only-scratch then only-public was declared for a public name, and the
\* run went on as only-public: it was not refused for its kind
C15_Witness ==
    \E o \in Ops :
        /\ declared[o] = <<"OnlyScratch", "OnlyPublic">>
        /\ ~IsScratchBookmark(op[o].bookmark)
        /\ pc[o] = "Done" /\ Called(o, "create")
        /\ result[o] = "Ok"

\* how many times run called c
Count(o, c) == Cardinality({i \in 1 .. Len(log[o]) : log[o][i] = c})

\* C16: a run that reached the commit called commit_with_hook if the hook
\* preparation returned a hook and the plain commit if it did not (scratch
\* path, or no hook to prepare); it called one of the two, once.
C16_CommitVariantFollowsHook ==
    \A o \in Ops :
        /\ Called(o, "commit_with_hook") <=>
               (txn_hook[o].some /\ CommitAttempted(o))
        /\ Called(o, "commit") <=>
               (~txn_hook[o].some /\ CommitAttempted(o))
        /\ Count(o, "commit") + Count(o, "commit_with_hook") <= 1
        /\ pc[o] = "AwaitCommit" => CommitAttempted(o)
        /\ ok[o] # "none" => CommitAttempted(o)
        /\ (ResolvedPublic(o) /\ DOMAIN op[o].new_changesets = {}) =>
               ~Called(o, "commit_with_hook")

\* a public create with a hook and a public create without new changesets
\* both committed, each with its variant
C16_Witness ==
    \E o, q \in Ops :
        /\ Called(o, "commit_with_hook") /\ txn_hook[o].some /\ ok[o] # "none"
        /\ Called(q, "commit") /\ Called(q, "create") /\ ok[q] # "none"

\* C17: a run begins at most one transaction, stages at most one create in
\* it and calls a commit at most once; once its commit has returned, the
\* run has ended, and its transaction, its calls and what the commit
\* returned never change again.
C17_NoRetrySingleUse ==
    /\ [](\A o \in Ops :
            /\ Count(o, "update_bookmark_transaction") <= 1
            /\ Count(o, "create") + Count(o, "create_scratch") <= 1
            /\ Count(o, "commit") + Count(o, "commit_with_hook") <= 1
            /\ Len(txn[o].staged) <= 1
            /\ ok[o] # "none" => pc[o] = "Done" /\ result[o] # "none")
    /\ [][\A o \in Ops :
            ok[o] # "none" =>
                /\ pc'[o] = "Done"
                /\ ok'[o] = ok[o]
                /\ log'[o] = log[o]
                /\ txn'[o] = txn[o]
                /\ result'[o] = result[o]
         ]_vars

\* a commit returned false and another true, and both runs have ended
C17_Witness ==
    \E o, q \in Ops :
        /\ ok[o] = "false" /\ pc[o] = "Done" /\ Len(txn[o].staged) = 1
        /\ ok[q] = "true" /\ pc[q] = "Done"

\* the value last given to with_bundle_replay_data, none if never given
LastReplay(o) ==
    IF replays[o] = <<>> THEN "none" ELSE replays[o][Len(replays[o])]

\* C19: what a public create hands to the transaction's create is the
\* bundle-replay value last given to with_bundle_replay_data (none if never
\* given) and the reason given to new, with the operation's name and
\* target; no builder call and no step of run changes the reason.
C19_ReplayPassedThrough ==
    /\ [](\A o \in Ops :
            /\ op[o].bundle_replay = LastReplay(o)
            /\ \A i \in 1 .. Len(txn[o].staged) :
                   txn[o].staged[i].ns = "public" =>
                       /\ txn[o].staged[i].bundle_replay = LastReplay(o)
                       /\ txn[o].staged[i].reason = op[o].reason
                       /\ txn[o].staged[i].bookmark = op[o].bookmark
                       /\ txn[o].staged[i].target = op[o].target
            /\ (Called(o, "create") /\ pc[o] = "AwaitCommit") =>
                   Len(txn[o].staged) = 1)
    /\ [][\A o \in Ops : op'[o].reason = op[o].reason]_vars

\* replay data was given, taken back and given again; the create staged it
\* with the reason given to new
C19_Witness ==
    \E o \in Ops :
        /\ replays[o] = <<"none", "replay">>
        /\ Len(txn[o].staged) = 1
        /\ txn[o].staged[1].bundle_replay = "replay"
        /\ txn[o].staged[1].reason = "Pushrebase"
        /\ result[o] = "Ok"

\* C20: an authorized create resolved as public ends with the configuration
\* conflict whenever global numbering is enabled, with or without new
\* changesets, having called neither the hook builder nor a create; a
\* create resolved as scratch never calls the global-numbering check, and
\* is not refused for the configuration.
C20_NumberingCheckByKindOnly ==
    \A o \in Ops :
        /\ (ResolvedPublic(o) /\ globalrevs) =>
               /\ pc[o] = "Done" => result[o] = "ConfigurationConflict"
               /\ ~Called(o, "populate_git_mapping_txn_hook")
               /\ ~StageAttempted(o)
        /\ ResolvedScratch(o) =>
               /\ ~Called(o, "require_globalrevs_disabled")
               /\ result[o] # "ConfigurationConflict"
        /\ (ResolvedPublic(o) /\ pc[o] # "Configured") =>
               Called(o, "require_globalrevs_disabled")

\* with global numbering enabled, a public create without new changesets
\* was refused and a scratch create succeeded
C20_Witness ==
    \E o, q \in Ops :
        /\ globalrevs
        /\ ResolvedPublic(o) /\ DOMAIN op[o].new_changesets = {}
        /\ result[o] = "ConfigurationConflict"
        /\ ResolvedScratch(q) /\ result[q] = "Ok"

----------------------------------------------------------------------------
(* Cancellation: the caller drops the future of run at a suspension point *)

DropAlsoAfterCommit(o) ==
    /\ pc[o] \in {"AwaitHook", "AwaitCommit", "Done"}
    /\ pc' = [pc EXCEPT ![o] = "Dropped"]
    /\ UNCHANGED <<op, ctx, supplied, declared, replays, txn, txn_hook, ok,
                   result, log, bookmarks, git_mapping, globalrevs, download, health>>

\* run is dropped while it waits on the hook preparation (`.await`,
\* create.rs:105) or on the commit (`.await`, create.rs:110-111), before
\* the store has executed the commit; the transaction and the hook are
\* dropped with it
Drop(o) ==
    /\ pc[o] \in {"AwaitHook", "AwaitCommit"}
    /\ pc' = [pc EXCEPT ![o] = "Dropped"]
    /\ UNCHANGED <<op, ctx, supplied, declared, replays, txn, txn_hook, ok,
                   result, log, bookmarks, git_mapping, globalrevs, download, health>>

NextCancel ==
    \E o \in Ops :
        \/ Run(o)
        \/ HookReturns(o)
        \/ CommitReturns(o)
        \/ Drop(o)

SpecCancel == Init /\ [][NextCancel]_vars

\* the runs on name n that called a commit and have its answer
Answered(n) ==
    {q \in Ops : op[q].bookmark = n /\ CommitAttempted(q) /\ pc[q] = "Done"}

\* C18: a run dropped at a suspension point has no result, no commit of its
\* own was executed, and nothing of it is in the bookmark store or in the
\* auxiliary mapping; and it blocks nobody: of the other runs on its name
\* whose commits were answered, none with an error, exactly one succeeded,
\* and while none of them succeeded the name is free.
C18_CancellationLeavesNoResidue ==
    \A o \in Ops :
        pc[o] = "Dropped" =>
            /\ result[o] = "none"
            /\ ok[o] = "none"
            /\ Untouched(o)
            /\ LET n == op[o].bookmark
                   won == {q \in Answered(n) : result[q] = "Ok"}
               IN  /\ won = {} => bookmarks[NamespaceOf(n)][n] = NoTarget
                   /\ (/\ Answered(n) # {}
                       /\ \A q \in Answered(n) : ok[q] # "error") =>
                          Cardinality(won) = 1

\* a run that had staged its create and held a hook was dropped while it
\* waited on the commit, and another run then created the same name
C18_Witness ==
    \E o, q \in Ops :
        /\ pc[o] = "Dropped" /\ Called(o, "commit_with_hook")
        /\ Len(txn[o].staged) = 1
        /\ op[q].bookmark = op[o].bookmark
        /\ result[q] = "Ok"
        /\ bookmarks["public"][op[q].bookmark] = op[q].target

----------------------------------------------------------------------------
(* Scratch creates and the side inputs of the builder *)

\* what a scratch create of operation o hands to the transaction
ScratchRecord(o) ==
    [ns |-> "scratch", bookmark |-> op[o].bookmark, target |-> op[o].target,
     reason |-> "none", bundle_replay |-> "none"]

\* the store after the scratch create of the only operation that runs:
\* the pointer when the commit applied, nothing otherwise
ScratchStoreAfter(o) ==
    IF ok[o] = "true"
    THEN [EmptyStore EXCEPT !["scratch"][op[o].bookmark] = op[o].target]
    ELSE EmptyStore

\* C21: on a run whose resolved kind is scratch, what is staged is the name
\* and the target alone (no reason, no bundle-replay value), no hook is held
\* and no entry of the auxiliary mapping is written; the result and the
\* store at the end are a function of the name, the target and the commit's
\* answer, whatever reason, bundle-replay values and new-changesets sets the
\* builder was given.
C21_ScratchDiscardsSideInputs ==
    \A o \in Ops :
        ResolvedScratch(o) =>
            /\ \A i \in 1 .. Len(txn[o].staged) :
                   txn[o].staged[i] = ScratchRecord(o)
            /\ Len(txn[o].staged) <= 1
            /\ txn_hook[o] = NoHook
            /\ git_mapping = {}
            /\ IsPrefix(log[o], ScratchOrder)
            /\ pc[o] = "Done" =>
                   /\ txn[o].staged = <<ScratchRecord(o)>>
                   /\ result[o] = (IF ok[o] = "true" THEN "Ok"
                                   ELSE "StorageError")
                   /\ bookmarks = ScratchStoreAfter(o)

\* a scratch create given a reason other than the default of the runs
\* above, a bundle-replay value and a new-changesets set has succeeded
C21_Witness ==
    \E o \in Ops :
        /\ ResolvedScratch(o)
        /\ op[o].reason = "Pushrebase"
        /\ op[o].bundle_replay = "replay"
        /\ DOMAIN op[o].new_changesets # {}
        /\ pc[o] = "Done"
        /\ result[o] = "Ok"
        /\ bookmarks["scratch"][op[o].bookmark] = op[o].target

----------------------------------------------------------------------------
(* The transaction of a public create: begun early, staged late *)

\* where in the run's calls the call c is
PosOf(o, c) == CHOOSE i \in 1 .. Len(log[o]) : log[o][i] = c

\* the calls a and b were made, a before b
Before(o, a, b) ==
    Called(o, a) /\ Called(o, b) /\ PosOf(o, a) < PosOf(o, b)

\* the run of a public create ended at the global-numbering check or at
\* the hook builder
EndedBeforeStaging(o) ==
    /\ ResolvedPublic(o)
    /\ pc[o] = "Done"
    /\ ~Called(o, "create")

\* C22: on the public path the transaction is begun after the kind check
\* and before the global-numbering check and the hook builder, and the
\* create is staged only after both succeeded: while the hook builder is
\* awaited the transaction is begun and holds nothing, and a run that ended
\* at the global-numbering check or at the hook builder holds a begun
\* transaction with nothing staged, never called a commit, and its last
\* step changed neither the bookmark store nor the auxiliary mapping.
C22_BegunBeforeHookStagedAfter ==
    /\ [](\A o \in Ops :
            /\ txn[o].begun <=> Called(o, "update_bookmark_transaction")
            /\ Called(o, "update_bookmark_transaction") =>
                   Before(o, "check_kind", "update_bookmark_transaction")
            /\ Called(o, "require_globalrevs_disabled") =>
                   Before(o, "update_bookmark_transaction",
                          "require_globalrevs_disabled")
            /\ Called(o, "populate_git_mapping_txn_hook") =>
                   /\ Before(o, "update_bookmark_transaction",
                             "populate_git_mapping_txn_hook")
                   /\ Before(o, "require_globalrevs_disabled",
                             "populate_git_mapping_txn_hook")
            /\ Called(o, "create") =>
                   /\ Before(o, "require_globalrevs_disabled", "create")
                   /\ Before(o, "populate_git_mapping_txn_hook", "create")
            /\ (ResolvedPublic(o) /\ txn[o].staged # <<>>) =>
                   Called(o, "create")
            /\ pc[o] = "AwaitHook" =>
                   /\ ResolvedPublic(o)
                   /\ txn[o] = [begun |-> TRUE, staged |-> <<>>]
            /\ EndedBeforeStaging(o) =>
                   /\ txn[o] = [begun |-> TRUE, staged |-> <<>>]
                   /\ result[o] \in {"ConfigurationConflict", "StorageError"}
                   /\ (result[o] = "ConfigurationConflict") <=>
                          (Last(log[o]) = "require_globalrevs_disabled")
                   /\ (result[o] = "StorageError") <=>
                          (Last(log[o]) = "populate_git_mapping_txn_hook")
                   /\ ~CommitAttempted(o)
                   /\ ok[o] = "none"
                   /\ Untouched(o))
    /\ [][\A o \in Ops :
            (pc[o] # "Done" /\ EndedBeforeStaging(o)') =>
                /\ bookmarks' = bookmarks
                /\ git_mapping' = git_mapping]_vars

\* one public create ended at the hook builder with a begun transaction
\* that holds nothing, and another passed both and staged its create
C22_Witness ==
    \E o, q \in Ops :
        /\ EndedBeforeStaging(o)
        /\ result[o] = "StorageError"
        /\ Last(log[o]) = "populate_git_mapping_txn_hook"
        /\ txn[o] = [begun |-> TRUE, staged |-> <<>>]
        /\ ResolvedPublic(q)
        /\ Before(q, "populate_git_mapping_txn_hook", "create")
        /\ Len(txn[q].staged) = 1

----------------------------------------------------------------------------
(* The LFS server's download handler (lfs_server/src/download.rs) *)

MaxChunks == 2
MaxChunkLen == 2

Bytes == {0, 1}

SeqsUpTo(S, n) == UNION {[1 .. k -> S] : k \in 0 .. n}

\* what a filestore stream yields, and the streams of the stored objects
Chunks == SeqsUpTo(Bytes, MaxChunkLen)

Blobs == SeqsUpTo(Chunks, MaxChunks)

RECURSIVE TotalLen(_)
TotalLen(chunks) ==
    IF chunks = <<>> THEN 0 ELSE Len(Head(chunks)) + TotalLen(Tail(chunks))

Repositories == {"repo", "elsewhere"}

KnownRepositories == {"repo"}

\* RepositoryRequestContext::instantiate: an HttpError of its own when the
\* repository is not served
InstantiateFailure == [from |-> "instantiate"]

Instantiate(repository) ==
    IF repository \in KnownRepositories
    THEN [ok |-> TRUE, repo |-> repository]
    ELSE [ok |-> FALSE, repo |-> repository]

\* content ids as the request carries them: sequences of characters
HexDigits == {"a", "b"}

ContentIdLen == 2

ContentIdStrings == {<<"a", "b">>, <<"b", "a">>, <<"a", "z">>, <<"a">>}

\* ContentId::from_str
ContentIdFromStr(s) ==
    IF Len(s) = ContentIdLen /\ \A i \in 1 .. Len(s) : s[i] \in HexDigits
    THEN [ok |-> TRUE, id |-> s]
    ELSE [ok |-> FALSE, id |-> <<>>]

ContentIds == {s \in ContentIdStrings : ContentIdFromStr(s).ok}

\* the one id an object may be stored under
StoredId == <<"a", "b">>

\* a filestore maps the ids of its objects to their streams
Filestores == UNION {[S -> Blobs] : S \in SUBSET {StoredId}}

\* filestore::fetch_with_size: an error, None, or Some((stream, size))
FetchWithSize(store, id, fault) ==
    IF fault THEN [ret |-> "error", stream |-> <<>>, size |-> 0]
    ELSE IF id \notin DOMAIN store
    THEN [ret |-> "none", stream |-> <<>>, size |-> 0]
    ELSE [ret |-> "some", stream |-> store[id], size |-> TotalLen(store[id])]

\* HttpError::e400, e500, e404
e400(kind) == [from |-> "download", status |-> 400, error |-> kind]

e500(kind) == [from |-> "download", status |-> 500, error |-> kind]

e404(kind) == [from |-> "download", status |-> 404, error |-> kind]

NoResponse == [kind |-> "none"]

ErrResponse(e) == [kind |-> "error", http_error |-> e]

\* StreamBody::new(stream, size, mime::APPLICATION_OCTET_STREAM)
StreamBody(stream, size) ==
    [kind |-> "body", stream |-> stream, size |-> size,
     mime |-> "application/octet-stream"]

\* if ctx.config.track_bytes_sent { stream.inspect(..).left_stream() }
\* else { stream.right_stream() }
BodyStream(track_bytes_sent, stream) ==
    IF track_bytes_sent
    THEN [items |-> stream, inspect |-> TRUE]
    ELSE [items |-> stream, inspect |-> FALSE]

DownloadUntilAwaitParsesFirst(d) ==
    LET c == Instantiate(d.params.repository)
        id == ContentIdFromStr(d.params.content_id)
    IN  IF ~id.ok
        THEN [pc |-> "Done", calls |-> <<"from_str">>,
              response |-> ErrResponse(e400("InvalidContentId"))]
        ELSE IF ~c.ok
        THEN [pc |-> "Done", calls |-> <<"from_str", "instantiate">>,
              response |-> ErrResponse(InstantiateFailure)]
        ELSE [pc |-> "AwaitFetch",
              calls |-> <<"from_str", "instantiate", "fetch_with_size">>,
              response |-> NoResponse]

\* download up to its suspension point: instantiate, from_str and the call
\* of fetch_with_size
DownloadUntilAwait(d) ==
    LET c == Instantiate(d.params.repository)
        id == ContentIdFromStr(d.params.content_id)
    IN  IF ~c.ok
        THEN [pc |-> "Done", calls |-> <<"instantiate">>,
              response |-> ErrResponse(InstantiateFailure)]
        ELSE IF ~id.ok
        THEN [pc |-> "Done", calls |-> <<"instantiate", "from_str">>,
              response |-> ErrResponse(e400("InvalidContentId"))]
        ELSE [pc |-> "AwaitFetch",
              calls |-> <<"instantiate", "from_str", "fetch_with_size">>,
              response |-> NoResponse]

\* download from the filestore's answer to its return
DownloadAfterFetch(d, fault) ==
    LET id == ContentIdFromStr(d.params.content_id).id
        f == FetchWithSize(d.filestore, id, fault)
    IN  IF f.ret = "error"
        THEN [pc |-> "Done", fetch |-> f.ret,
              response |-> ErrResponse(e500("FilestoreReadFailure"))]
        ELSE IF f.ret = "none"
        THEN [pc |-> "Done", fetch |-> f.ret,
              response |-> ErrResponse(e404("ObjectDoesNotExist"))]
        ELSE [pc |-> "Streaming", fetch |-> f.ret,
              response |-> StreamBody(BodyStream(d.track_bytes_sent, f.stream),
                                      f.size)]

BookmarkVars ==
    <<op, ctx, pc, supplied, declared, replays, txn, txn_hook, ok, result, log,
      bookmarks, git_mapping, globalrevs>>

\* the handler is called: state.take(), instantiate, from_str, and the
\* filestore is queried
Download ==
    /\ download.pc = "Received"
    /\ LET r == DownloadUntilAwait(download)
       IN  download' = [download EXCEPT !.pc = r.pc,
                                        !.has_params = FALSE,
                                        !.calls = r.calls,
                                        !.response = r.response]
    /\ UNCHANGED <<BookmarkVars, health>>

\* the filestore answers, and the handler returns
FetchReturns ==
    /\ download.pc = "AwaitFetch"
    /\ \E fault \in BOOLEAN :
         LET r == DownloadAfterFetch(download, fault)
         IN  download' = [download EXCEPT !.pc = r.pc,
                                          !.fetch = r.fetch,
                                          !.response = r.response]
    /\ UNCHANGED <<BookmarkVars, health>>

\* the server polls the returned body: the next chunk goes to the client,
\* and an inspected stream adds the chunk's length to size_bytes_sent
PollBody ==
    /\ download.pc = "Streaming"
    /\ LET body == download.response.stream
       IN  IF body.items = <<>>
           THEN download' = [download EXCEPT !.pc = "Done"]
           ELSE download' =
                  [download EXCEPT
                     !.response.stream.items = Tail(body.items),
                     !.sent = Append(@, Head(body.items)),
                     !.size_bytes_sent =
                         IF body.inspect THEN @ + Len(Head(body.items))
                         ELSE @]
    /\ UNCHANGED <<BookmarkVars, health>>

\* no bookmark operation is running
InitNoCreates ==
    /\ op = [o \in Ops |-> New("main", o, "Push")]
    /\ ctx = [o \in Ops |-> "alice"]
    /\ pc = [o \in Ops |-> "Unused"]
    /\ supplied = [o \in Ops |-> <<>>]
    /\ declared = [o \in Ops |-> <<>>]
    /\ replays = [o \in Ops |-> <<>>]
    /\ txn = [o \in Ops |-> NoTxn]
    /\ txn_hook = [o \in Ops |-> NoHook]
    /\ ok = [o \in Ops |-> "none"]
    /\ result = [o \in Ops |-> "none"]
    /\ log = [o \in Ops |-> <<>>]
    /\ bookmarks = EmptyStore
    /\ git_mapping = {}
    /\ globalrevs = FALSE

InitDownload ==
    /\ InitNoCreates
    /\ health = NoHealth
    /\ \E repository \in Repositories, content_id \in ContentIdStrings,
          track \in BOOLEAN, store \in Filestores :
         download = [pc |-> "Received",
                     params |-> [repository |-> repository,
                                 content_id |-> content_id],
                     has_params |-> TRUE,
                     track_bytes_sent |-> track,
                     filestore |-> store,
                     calls |-> <<>>,
                     fetch |-> "pending",
                     response |-> NoResponse,
                     sent |-> <<>>,
                     size_bytes_sent |-> 0]

NextDownload == Download \/ FetchReturns \/ PollBody

SpecDownload == InitDownload /\ [][NextDownload]_vars

DownloadOrder == <<"instantiate", "from_str", "fetch_with_size">>

\* the handler has returned
Returned == download.pc \in {"Streaming", "Done"}

\* the filestore holds the object the request names
ObjectExists ==
    ContentIdFromStr(download.params.content_id).id \in DOMAIN download.filestore

\* the object the request names, when the filestore holds it
RequestedBlob ==
    download.filestore[ContentIdFromStr(download.params.content_id).id]

\* what the body still holds
Remaining ==
    IF download.response.kind = "body"
    THEN download.response.stream.items ELSE <<>>

\* C23: the handler's calls are an initial part of instantiate, from_str,
\* fetch_with_size; a failed instantiate is answered with its own error and
\* nothing else is called; otherwise an unparsable content id is answered
\* with 400 and the filestore is not queried; otherwise a failed filestore
\* read is answered with 500, whether the object exists or not; otherwise a
\* missing object is answered with 404; a body is returned exactly when all
\* four succeeded, and then, whatever track_bytes_sent is, its size is the
\* object's size and the chunks sent and still to send are the object's.
C23_DownloadFailsInFixedOrder ==
    LET d == download
        c == Instantiate(d.params.repository)
        id == ContentIdFromStr(d.params.content_id)
    IN  /\ IsPrefix(d.calls, DownloadOrder)
        /\ d.pc = "Received" => d.calls = <<>> /\ d.response = NoResponse
        /\ d.pc = "AwaitFetch" =>
               c.ok /\ id.ok /\ d.calls = DownloadOrder
                    /\ d.response = NoResponse
        /\ Returned =>
               /\ ~c.ok =>
                      /\ d.response = ErrResponse(InstantiateFailure)
                      /\ d.calls = <<"instantiate">>
               /\ (c.ok /\ ~id.ok) =>
                      /\ d.response = ErrResponse(e400("InvalidContentId"))
                      /\ d.calls = <<"instantiate", "from_str">>
                      /\ d.fetch = "pending"
               /\ (c.ok /\ id.ok) =>
                      /\ d.calls = DownloadOrder
                      /\ d.fetch \in {"error", "none", "some"}
                      /\ d.fetch # "error" =>
                             (d.fetch = "none" <=> ~ObjectExists)
                      /\ d.fetch = "error" =>
                             d.response =
                                 ErrResponse(e500("FilestoreReadFailure"))
                      /\ d.fetch = "none" =>
                             d.response =
                                 ErrResponse(e404("ObjectDoesNotExist"))
                      /\ d.fetch = "some" => d.response.kind = "body"
               /\ d.response.kind = "body" =>
                      /\ c.ok /\ id.ok /\ d.fetch = "some"
                      /\ ObjectExists
                      /\ d.response.size = TotalLen(RequestedBlob)
                      /\ d.response.mime = "application/octet-stream"
                      /\ d.response.stream.inspect = d.track_bytes_sent
                      /\ d.sent \o Remaining = RequestedBlob
                      /\ d.pc = "Done" =>
                             /\ d.sent = RequestedBlob
                             /\ TotalLen(d.sent) = d.response.size
               /\ d.response.kind # "body" => d.sent = <<>>

\* a tracked download of an object of two chunks, not all empty, was sent
\* to its end
C23_Witness ==
    /\ download.pc = "Done"
    /\ download.response.kind = "body"
    /\ download.track_bytes_sent
    /\ Len(download.sent) = MaxChunks
    /\ TotalLen(download.sent) > 0
    /\ download.size_bytes_sent = download.response.size

----------------------------------------------------------------------------
(* The EdenAPI server's router and health check (handlers/mod.rs) *)

MaxRequests == 2

RepoNames == {"repo_a", "repo_b"}

\* the handlers made by define_handler!
AsyncHandlers ==
    {"repos_handler", "files_handler", "trees_handler",
     "complete_trees_handler", "history_handler",
     "commit_location_to_hash_handler", "commit_revlog_data_handler"}

\* build_router: the routes in the order they are drawn
Routes ==
    <<[method |-> "GET", path |-> "/health_check",
       extractor |-> FALSE, handler |-> "health_handler"],
      [method |-> "GET", path |-> "/repos",
       extractor |-> FALSE, handler |-> "repos_handler"],
      [method |-> "POST", path |-> "/:repo/files",
       extractor |-> TRUE, handler |-> "files_handler"],
      [method |-> "POST", path |-> "/:repo/trees",
       extractor |-> TRUE, handler |-> "trees_handler"],
      [method |-> "POST", path |-> "/:repo/trees/complete",
       extractor |-> TRUE, handler |-> "complete_trees_handler"],
      [method |-> "POST", path |-> "/:repo/history",
       extractor |-> TRUE, handler |-> "history_handler"],
      [method |-> "POST", path |-> "/:repo/commit/location_to_hash",
       extractor |-> TRUE, handler |-> "commit_location_to_hash_handler"],
      [method |-> "POST", path |-> "/:repo/commit/revlog_data",
       extractor |-> TRUE, handler |-> "commit_revlog_data_handler"]>>

\* the requests the router has a route for: a repository name in the path
\* exactly when the route extracts one
Requests ==
    {[method |-> Routes[p[1]].method, path |-> Routes[p[1]].path,
      repo |-> p[2]] :
        p \in {q \in (DOMAIN Routes) \X (RepoNames \cup {"none"}) :
                  Routes[q[1]].extractor <=> q[2] # "none"}}

\* the route of a request
RouteOf(request) ==
    Routes[CHOOSE i \in DOMAIN Routes :
               /\ Routes[i].method = request.method
               /\ Routes[i].path = request.path]

\* the State the pipeline hands to the handler: the path parameters, when
\* the route extracts them
StateOf(request) ==
    [has_params |-> RouteOf(request).extractor, repo |-> request.repo]

HealthHandlerInverted(state, will_exit) ==
    IF will_exit THEN <<state, "I_AM_ALIVE">> ELSE <<state, "EXITING">>

\* health_handler, with what ServerContext::will_exit answers
HealthHandler(state, will_exit) ==
    IF will_exit THEN <<state, "EXITING">> ELSE <<state, "I_AM_ALIVE">>

NoAnswer == [via |-> "none", body |-> "none"]

\* the shutdown of the server sets the flag will_exit reads
Shutdown ==
    /\ health.pc # "Off"
    /\ ~health.will_exit
    /\ health' = [health EXCEPT !.will_exit = TRUE]
    /\ UNCHANGED <<BookmarkVars, download>>

\* the router calls the handler of the request's route: health_handler
\* answers at once, a handler made by define_handler! returns a future
Dispatch ==
    /\ health.pc = "Received"
    /\ LET r == RouteOf(health.request)
           h == HealthHandler(health.state, health.will_exit)
       IN  IF r.handler \in AsyncHandlers
           THEN health' = [health EXCEPT !.pc = "AwaitHandler"]
           ELSE health' = [health EXCEPT
                             !.pc = "Answered",
                             !.state = h[1],
                             !.answer = [via |-> "direct", body |-> h[2]]]
    /\ UNCHANGED <<BookmarkVars, download>>

\* define_handler!: the wrapped function has run on &mut State, and
\* build_response makes the answer of its result
HandlerReturns ==
    /\ health.pc = "AwaitHandler"
    /\ \E res \in {"Ok", "Err"}, took \in BOOLEAN :
         health' = [health EXCEPT
                      !.pc = "Answered",
                      !.state.has_params = @ /\ ~took,
                      !.answer = [via |-> "define_handler", body |-> res]]
    /\ UNCHANGED <<BookmarkVars, download>>

\* the next request arrives
NextRequest ==
    /\ health.pc = "Answered"
    /\ Len(health.history) + 1 < MaxRequests
    /\ \E request \in Requests :
         health' = [health EXCEPT
                      !.pc = "Received",
                      !.request = request,
                      !.state = StateOf(request),
                      !.answer = NoAnswer,
                      !.history = Append(@, [path |-> health.request.path,
                                             answer |-> health.answer])]
    /\ UNCHANGED <<BookmarkVars, download>>

InitHealth ==
    /\ InitNoCreates
    /\ download = NoDownload
    /\ \E request \in Requests, will_exit \in BOOLEAN :
         health = [pc |-> "Received",
                   will_exit |-> will_exit,
                   request |-> request,
                   state |-> StateOf(request),
                   answer |-> NoAnswer,
                   history |-> <<>>]

NextHealth == Shutdown \/ Dispatch \/ HandlerReturns \/ NextRequest

SpecHealth == InitHealth /\ [][NextHealth]_vars

IsHealthCheck(request) ==
    request.method = "GET" /\ request.path = "/health_check"

\* C24: the handler of /health_check answers in the step it is called, with
\* "EXITING" when will_exit holds at that step and "I_AM_ALIVE" when it does
\* not, and leaves the request's State as it was; a request is answered
\* without the wrapper of define_handler! exactly when it is the health
\* check, and /health_check is the only route whose handler is not made by
\* define_handler!.
C24_HealthReflectsExitFlag ==
    /\ [](/\ \A i \in DOMAIN Routes :
                (Routes[i].handler \notin AsyncHandlers) <=>
                    IsHealthCheck(Routes[i])
          /\ health.pc = "AwaitHandler" => ~IsHealthCheck(health.request)
          /\ health.pc = "Answered" =>
                /\ (health.answer.via = "direct") <=>
                       IsHealthCheck(health.request)
                /\ (health.answer.via = "define_handler") <=>
                       ~IsHealthCheck(health.request)
                /\ IsHealthCheck(health.request) =>
                       /\ health.answer.body \in {"EXITING", "I_AM_ALIVE"}
                       /\ health.state = StateOf(health.request)
          /\ \A i \in 1 .. Len(health.history) :
                (health.history[i].answer.via = "direct") <=>
                    (health.history[i].path = "/health_check"))
    /\ [][(health.pc = "Received" /\ IsHealthCheck(health.request)
              /\ health'.pc # "Received") =>
             /\ health'.pc = "Answered"
             /\ health'.state = health.state
             /\ health'.answer.via = "direct"
             /\ (health'.answer.body = "EXITING") <=> health.will_exit
             /\ (health'.answer.body = "I_AM_ALIVE") <=> ~health.will_exit]_vars

\* a health check was answered I_AM_ALIVE, the server began to exit, and the
\* next health check is answered EXITING
C24_Witness ==
    /\ health.pc = "Answered"
    /\ IsHealthCheck(health.request)
    /\ health.answer = [via |-> "direct", body |-> "EXITING"]
    /\ health.will_exit
    /\ Len(health.history) = 1
    /\ health.history[1] =
           [path |-> "/health_check",
            answer |-> [via |-> "direct", body |-> "I_AM_ALIVE"]]

====
